---- MODULE Spec2Model ----
(***************************************************************************)
(* One invocation of prep_and_visualize (forskoleappen.py): load the       *)
(* attendance records, filter the rows, expand every interval into the     *)
(* hours it covers, count the hours, draw and save the chart.              *)
(*                                                                         *)
(* A date is the number of days since 1970-01-01 (a Thursday), a time of   *)
(* day cell is <<hour, minute>> or the placeholder Dash ('-'), a timestamp *)
(* is the number of minutes since 1970-01-01 00:00.                        *)
(***************************************************************************)
EXTENDS Integers, Sequences, FiniteSets, TLC

\* ------------------------------------------------------------------ bounds
MaxFiles == 2
MaxRows == 2

\* ------------------------------------------------------------ input domain
Dash == <<>>

\* 1970-01-05 is a Monday
Monday1 == 1 + 3
Tuesday1 == Monday1 + 1
Saturday1 == Monday1 + 5

Dates == {Monday1, Tuesday1, Saturday1}

DaysArgs == {"All", "Monday", "Tuesday", "Saturday"}

Rec(d, si, so, ci, co, ft, ab) ==
    [Date |-> d, ScheduleIn |-> si, ScheduleOut |-> so, CheckIn |-> ci,
     CheckOut |-> co, FreeTime |-> ft, Absent |-> ab]

FullDay == << <<8, 0>>, <<16, 0>> >>
Morning == << <<8, 15>>, <<10, 45>> >>
Reversed == << <<10, 45>>, <<8, 15>> >>
SameHourBack == << <<8, 15>>, <<8, 0>> >>
Afternoon == << <<13, 30>>, <<16, 0>> >>
NoStart == << Dash, <<16, 0>> >>
NoEnd == << <<8, 0>>, Dash >>

\* schedule interval, check interval
IntervalPairs ==
    { <<FullDay, Morning>>, <<Morning, FullDay>>, <<FullDay, Reversed>>,
      <<Reversed, FullDay>>, <<FullDay, SameHourBack>>, <<SameHourBack, Morning>>,
      <<NoStart, FullDay>>, <<NoEnd, FullDay>>, <<FullDay, NoStart>>,
      <<FullDay, NoEnd>>, <<Afternoon, Afternoon>>, <<Reversed, Reversed>> }

Records ==
    { Rec(d, FullDay[1], FullDay[2], FullDay[1], FullDay[2], 0, 0) : d \in Dates }
    \cup { Rec(Monday1, FullDay[1], FullDay[2], FullDay[1], FullDay[2], ft, ab) :
             ft \in {0, 1}, ab \in {0, 1} }
    \cup { Rec(Monday1, p[1][1], p[1][2], p[2][1], p[2][2], 0, 0) : p \in IntervalPairs }

\* the frames pd.read_excel can return: at least one row, at most k
Frames(k) == UNION { [1..n -> Records] : n \in 1..k }

\* what n files can hold, one frame per file, rows rows in all at most
RECURSIVE Contents(_, _)
Contents(n, rows) ==
    IF n = 0 THEN { <<>> }
    ELSE UNION { { <<f>> \o rest : rest \in Contents(n - 1, rows - Len(f)) } :
                 f \in Frames(rows - (n - 1)) }

\* ---------------------------------------------------------------- helpers
RECURSIVE Concat(_)
Concat(frames) ==
    IF frames = <<>> THEN <<>> ELSE Head(frames) \o Concat(Tail(frames))

DayNames ==
    <<"Monday", "Tuesday", "Wednesday", "Thursday", "Friday", "Saturday", "Sunday">>

DayName(date) == DayNames[((date + 3) % 7) + 1]

DoiAllDays(d) ==
    <<"Monday", "Tuesday", "Wednesday", "Thursday", "Friday">>

Doi(d) ==
    IF d = "All"
    THEN <<"Monday", "Tuesday", "Wednesday", "Thursday", "Friday">>
    ELSE <<d>>

IsIn(x, list) == \E i \in DOMAIN list : list[i] = x

KeepNotAbsent(r, sel) ==
    /\ r.CheckIn # Dash
    /\ r.FreeTime = 0
    /\ r.ScheduleIn # Dash
    /\ r.ScheduleOut # Dash
    /\ r.CheckOut # Dash
    /\ r.Absent = 0
    /\ IsIn(DayName(r.Date), sel)

Keep(r, sel) ==
    /\ r.CheckIn # Dash
    /\ r.FreeTime = 0
    /\ r.ScheduleIn # Dash
    /\ r.ScheduleOut # Dash
    /\ r.CheckOut # Dash
    /\ IsIn(DayName(r.Date), sel)

ToDatetimeNoMinutes(date, t) == date * 1440 + t[1] * 60

ToDatetime(date, t) == date * 1440 + t[1] * 60 + t[2]

\* row i (0-based index label, as after ignore_index=True) of the filtered frame
FilteredRow(r, i) ==
    LET ci == ToDatetime(r.Date, r.CheckIn)
        co == ToDatetime(r.Date, r.CheckOut)
        si == ToDatetime(r.Date, r.ScheduleIn)
        so == ToDatetime(r.Date, r.ScheduleOut)
    IN  [index |-> i, Date |-> r.Date, Weekday |-> DayName(r.Date),
         ScheduleIn |-> si, ScheduleOut |-> so, CheckIn |-> ci, CheckOut |-> co,
         FreeTime |-> r.FreeTime, Absent |-> r.Absent,
         actual |-> co - ci, planned |-> so - si]

RECURSIVE FilterFrom(_, _, _)
FilterFrom(frame, i, sel) ==
    IF i > Len(frame) THEN <<>>
    ELSE (IF Keep(frame[i], sel) THEN <<FilteredRow(frame[i], i - 1)>> ELSE <<>>)
         \o FilterFrom(frame, i + 1, sel)

HourRounded(ts) == ((ts % 1440) + 30) \div 60

Hour(ts) == (ts % 1440) \div 60

RangeEitherWay(a, b) == [k \in 1..(IF b > a THEN b - a ELSE a - b) |-> a + k - 1]

Range(a, b) == [k \in 1..(IF b > a THEN b - a ELSE 0) |-> a + k - 1]

FlattenFirst(lists) == IF lists = <<>> THEN <<>> ELSE Head(lists)

RECURSIVE Flatten(_)
Flatten(lists) ==
    IF lists = <<>> THEN <<>> ELSE Head(lists) \o Flatten(Tail(lists))

\* Counter(flat).items(): one (value, occurrences) pair per distinct value
CounterItems(flat) ==
    { <<flat[i], Cardinality({j \in DOMAIN flat : flat[j] = flat[i]})>> : i \in DOMAIN flat }

\* order of Python tuples
PairLess(a, b) == a[1] < b[1] \/ (a[1] = b[1] /\ a[2] < b[2])

RECURSIVE SortedDescending(_)
SortedDescending(S) ==
    IF S = {} THEN <<>>
    ELSE LET m == CHOOSE x \in S : \A y \in S \ {x} : PairLess(y, x)
         IN  <<m>> \o SortedDescending(S \ {m})

RECURSIVE Sorted(_)
Sorted(S) ==
    IF S = {} THEN <<>>
    ELSE LET m == CHOOSE x \in S : \A y \in S \ {x} : PairLess(x, y)
         IN  <<m>> \o Sorted(S \ {m})

Firsts(pairs) == [i \in DOMAIN pairs |-> pairs[i][1]]
Seconds(pairs) == [i \in DOMAIN pairs |-> pairs[i][2]]

\* np.diff
Diff(xs) == [i \in 1..(Len(xs) - 1) |-> xs[i + 1] - xs[i]]

\* np.min of a non-empty array
Min(xs) == CHOOSE v \in {xs[i] : i \in DOMAIN xs} : \A i \in DOMAIN xs : v <= xs[i]

RenderErrorActualOnly(cc, pc_) ==
    IF cc = <<>> THEN "ValueError: not enough values to unpack (line 136)"
    ELSE IF Diff(Firsts(cc)) = <<>> THEN "ValueError: zero-size array to reduction operation minimum (line 139)"
    ELSE ""

\* the first line of the chart section that raises, "" when none does
RenderError(cc, pc_) ==
    IF cc = <<>> THEN "ValueError: not enough values to unpack (line 136)"
    ELSE IF pc_ = <<>> THEN "ValueError: not enough values to unpack (line 137)"
    ELSE IF Diff(Firsts(cc)) = <<>> THEN "ValueError: zero-size array to reduction operation minimum (line 139)"
    ELSE ""

\* ------------------------------------------------------------------ state
VARIABLES
    pc,          \* the next step of prep_and_visualize, "done" or "error"
    local_read,  \* argument
    days,        \* argument
    files,       \* the names glob finds in the directory
    df,          \* the loaded frame
    doi,         \* the weekday selector
    fdf,         \* the filtered frame
    tchours,     \* per row, the hours of the actual interval
    tphours,     \* per row, the hours of the planned interval
    checkcount,  \* sorted (hour, count) pairs, actual
    plancount,   \* sorted (hour, count) pairs, planned
    query,       \* the SQL queries issued
    image,       \* the charts written to image_filename
    err          \* the uncaught exception, "" when none

vars == <<pc, local_read, days, files, df, doi, fdf, tchours, tphours,
          checkcount, plancount, query, image, err>>

Init ==
    /\ pc = "load"
    /\ local_read \in BOOLEAN
    /\ days \in DaysArgs
    /\ files \in { [i \in 1..n |-> i] : n \in 0..MaxFiles }
    /\ df = <<>>
    /\ doi = <<>>
    /\ fdf = <<>>
    /\ tchours = <<>>
    /\ tphours = <<>>
    /\ checkcount = <<>>
    /\ plancount = <<>>
    /\ query = <<>>
    /\ image = <<>>
    /\ err = ""

Raise(e) ==
    /\ pc' = "error"
    /\ err' = e

ConcatNeverRaises(frames) == FALSE

\* pd.concat raises on an empty list of frames
ConcatRaises(frames) == frames = <<>>

\* lines 79-80 and read_local_data
ReadLocalData ==
    /\ pc = "load"
    /\ local_read
    /\ \E frames \in Contents(Len(files), MaxRows) :
          IF ConcatRaises(frames)
          THEN /\ Raise("ValueError: No objects to concatenate")
               /\ UNCHANGED df
          ELSE /\ df' = Concat(frames)
               /\ pc' = "filter"
               /\ UNCHANGED err
    /\ UNCHANGED <<local_read, days, files, doi, fdf, tchours, tphours,
                   checkcount, plancount, query, image>>

\* lines 81-82: read_from_db is called without its two required arguments
ReadFromDb ==
    /\ pc = "load"
    /\ ~local_read
    /\ Raise("TypeError: read_from_db() missing 2 required positional arguments")
    /\ UNCHANGED <<local_read, days, files, df, doi, fdf, tchours, tphours,
                   checkcount, plancount, query, image>>

\* lines 84-103
RowFilter ==
    /\ pc = "filter"
    /\ doi' = Doi(days)
    /\ fdf' = FilterFrom(df, 1, Doi(days))
    /\ pc' = "expand"
    /\ UNCHANGED <<local_read, days, files, df, tchours, tphours,
                   checkcount, plancount, query, image, err>>

\* lines 107-117
IntervalExpander ==
    /\ pc = "expand"
    /\ tchours' = [i \in DOMAIN fdf |->
                     Range(Hour(fdf[i].CheckIn), Hour(fdf[i].CheckOut) + 1)]
    /\ tphours' = [i \in DOMAIN fdf |->
                     Range(Hour(fdf[i].ScheduleIn), Hour(fdf[i].ScheduleOut) + 1)]
    /\ pc' = "count"
    /\ UNCHANGED <<local_read, days, files, df, doi, fdf,
                   checkcount, plancount, query, image, err>>

\* lines 119-125
HourAggregator ==
    /\ pc = "count"
    /\ checkcount' = Sorted(CounterItems(Flatten(tchours)))
    /\ plancount' = Sorted(CounterItems(Flatten(tphours)))
    /\ pc' = "render"
    /\ UNCHANGED <<local_read, days, files, df, doi, fdf, tchours, tphours,
                   query, image, err>>

\* lines 127-154
ChartRenderer ==
    /\ pc = "render"
    /\ IF RenderError(checkcount, plancount) # ""
       THEN /\ Raise(RenderError(checkcount, plancount))
            /\ UNCHANGED image
       ELSE /\ image' = Append(image,
                   [ah |-> Firsts(checkcount), noc |-> Seconds(checkcount),
                    ph |-> Firsts(plancount), nop |-> Seconds(plancount),
                    width3 |-> Min(Diff(Firsts(checkcount))), doias |-> doi])
            /\ pc' = "done"
            /\ UNCHANGED err
    /\ UNCHANGED <<local_read, days, files, df, doi, fdf, tchours, tphours,
                   checkcount, plancount, query>>

Next ==
    \/ ReadLocalData
    \/ ReadFromDb
    \/ RowFilter
    \/ IntervalExpander
    \/ HourAggregator
    \/ ChartRenderer

Spec == Init /\ [][Next]_vars

\* ---------------------------------------------------------------- claims
LoadFailed == pc = "error" /\ df = <<>>
Filtered == pc \in {"expand", "count", "render", "done"} \/ (pc = "error" /\ ~LoadFailed)
Expanded == pc \in {"count", "render", "done"} \/ (pc = "error" /\ ~LoadFailed)
Aggregated == pc \in {"render", "done"} \/ (pc = "error" /\ ~LoadFailed)

\* the loaded record a filtered row comes from
Src(i) == df[fdf[i].index + 1]

Consecutive(from, to) == [k \in 1..(to - from + 1) |-> from + k - 1]

Elems(list) == {list[k] : k \in DOMAIN list}

CountOf(pairs, h) ==
    IF \E k \in DOMAIN pairs : pairs[k][1] = h
    THEN pairs[CHOOSE k \in DOMAIN pairs : pairs[k][1] = h][2]
    ELSE 0

RECURSIVE SumSeq(_)
SumSeq(xs) == IF xs = <<>> THEN 0 ELSE Head(xs) + SumSeq(Tail(xs))

StrictlyAscending(pairs) ==
    \A k \in 1..(Len(pairs) - 1) : pairs[k][1] < pairs[k + 1][1]

TimeLeq(t, u) == t[1] < u[1] \/ (t[1] = u[1] /\ t[2] <= u[2])

\* C1: once the rows are expanded, every filtered row whose start hour is not
\* after its end hour has as its expansion exactly the consecutive hours
\* hour(start)..hour(end), minutes ignored, for the actual and for the planned
\* interval.
C1_ExpansionIsConsecutiveHours ==
    Expanded =>
        \A i \in DOMAIN fdf :
            /\ Src(i).CheckIn[1] <= Src(i).CheckOut[1] =>
                  tchours[i] = Consecutive(Src(i).CheckIn[1], Src(i).CheckOut[1])
            /\ Src(i).ScheduleIn[1] <= Src(i).ScheduleOut[1] =>
                  tphours[i] = Consecutive(Src(i).ScheduleIn[1], Src(i).ScheduleOut[1])

C1_Witness ==
    /\ Expanded
    /\ \E i \in DOMAIN fdf :
          /\ Src(i).CheckIn = <<8, 15>>
          /\ Src(i).CheckOut = <<10, 45>>
          /\ tchours[i] = <<8, 9, 10>>
    /\ \E i \in DOMAIN fdf :
          /\ Src(i).ScheduleIn = <<8, 15>>
          /\ Src(i).ScheduleOut = <<10, 45>>
          /\ tphours[i] = <<8, 9, 10>>

C2_IsFullDayOn(r, name) ==
    /\ DayName(r.Date) = name
    /\ r.CheckIn = <<8, 0>> /\ r.ScheduleIn = <<8, 0>>
    /\ r.CheckOut = <<16, 0>> /\ r.ScheduleOut = <<16, 0>>
    /\ r.FreeTime = 0

C2_TwoRecords ==
    /\ local_read
    /\ days = "Monday"
    /\ Len(df) = 2
    /\ \E i, j \in 1..2 :
          i # j /\ C2_IsFullDayOn(df[i], "Monday") /\ C2_IsFullDayOn(df[j], "Tuesday")

\* C2: with days = "Monday" and a record set of one Monday and one Tuesday
\* record, both 08:00-16:00 actual and planned with FreeTime 0, the actual and
\* the planned hour count are 1 for every hour 8..16 and have no other entry.
C2_EndToEndMonday ==
    (C2_TwoRecords /\ Aggregated) =>
        /\ checkcount = [k \in 1..9 |-> <<7 + k, 1>>]
        /\ plancount = [k \in 1..9 |-> <<7 + k, 1>>]
        /\ \A h \in 0..23 :
              /\ CountOf(checkcount, h) = (IF h \in 8..16 THEN 1 ELSE 0)
              /\ CountOf(plancount, h) = (IF h \in 8..16 THEN 1 ELSE 0)

C2_Witness ==
    /\ C2_TwoRecords
    /\ pc = "done"
    /\ Len(fdf) = 1
    /\ CountOf(plancount, 16) = 1

\* C3: once the hours are counted, for every hour 0..23 the count of
\* checkcount (plancount) is the number of filtered rows whose actual (planned)
\* expansion contains the hour, no entry counting as 0, and each mapping is in
\* strictly ascending hour order.
C3_CountPerHour ==
    Aggregated =>
        /\ \A h \in 0..23 :
              /\ CountOf(checkcount, h) =
                    Cardinality({i \in DOMAIN fdf : h \in Elems(tchours[i])})
              /\ CountOf(plancount, h) =
                    Cardinality({i \in DOMAIN fdf : h \in Elems(tphours[i])})
        /\ StrictlyAscending(checkcount)
        /\ StrictlyAscending(plancount)
        /\ Elems(Firsts(checkcount)) \subseteq 0..23
        /\ Elems(Firsts(plancount)) \subseteq 0..23

C3_Witness ==
    /\ Aggregated
    /\ Len(fdf) = 2
    /\ tchours[1] = <<13, 14, 15, 16>>
    /\ tchours[2] = <<8, 9, 10>>
    /\ tphours[1] = <<13, 14, 15, 16>>
    /\ CountOf(plancount, 13) = 2
    /\ CountOf(checkcount, 13) = 1
    /\ CountOf(checkcount, 11) = 0

\* C4: once the hours are counted, the counts of checkcount add up to the
\* total length of the actual expansions of the filtered rows, and the counts
\* of plancount to the total length of the planned expansions.
C4_CountsAddUp ==
    Aggregated =>
        /\ SumSeq(Seconds(checkcount)) = SumSeq([i \in DOMAIN fdf |-> Len(tchours[i])])
        /\ SumSeq(Seconds(plancount)) = SumSeq([i \in DOMAIN fdf |-> Len(tphours[i])])

C4_Witness ==
    /\ Aggregated
    /\ Len(fdf) = 2
    /\ SumSeq(Seconds(checkcount)) = 12
    /\ SumSeq(Seconds(plancount)) = 18

C5_Weekday(d) ==
    IF d = Monday1 THEN "Monday" ELSE IF d = Tuesday1 THEN "Tuesday" ELSE "Saturday"

C5_Selector ==
    IF days = "All"
    THEN {"Monday", "Tuesday", "Wednesday", "Thursday", "Friday"}
    ELSE {days}

\* C5: once the rows are filtered, a loaded record is in fdf exactly if its
\* four time cells differ from the placeholder, its FreeTime is 0 and its
\* weekday is in the selector (the five weekdays for "All", the named day
\* otherwise); nothing else, Absent included, decides.
C5_FilterMembership ==
    Filtered =>
        /\ \A j \in DOMAIN df :
              (\E i \in DOMAIN fdf : fdf[i].index = j - 1)
              <=> /\ df[j].CheckIn # Dash
                  /\ df[j].CheckOut # Dash
                  /\ df[j].ScheduleIn # Dash
                  /\ df[j].ScheduleOut # Dash
                  /\ df[j].FreeTime = 0
                  /\ C5_Weekday(df[j].Date) \in C5_Selector
        /\ \A i \in DOMAIN fdf : fdf[i].index + 1 \in DOMAIN df
        /\ days = "Monday" => \A i \in DOMAIN fdf : C5_Weekday(Src(i).Date) = "Monday"

C5_Witness ==
    /\ Filtered
    /\ Len(df) = 2
    /\ Len(fdf) = 1
    /\ Src(1).Absent = 1
    /\ \E j \in DOMAIN df : df[j].FreeTime = 1

\* C6 as stated: every filtered row has CheckIn <= CheckOut and
\* ScheduleIn <= ScheduleOut.
C6_FilteredIntervalsOrdered ==
    Filtered =>
        \A i \in DOMAIN fdf :
            /\ fdf[i].CheckIn <= fdf[i].CheckOut
            /\ fdf[i].ScheduleIn <= fdf[i].ScheduleOut

\* C6 as amended: the four timestamps of a filtered row lie on the record's
\* Date at the loaded time of day, so CheckIn <= CheckOut holds exactly when
\* the loaded Check-in time is not later than the loaded Check-out time, and
\* likewise for the schedule; the order itself is not checked.
C6_OrderIsTheLoadedOrder ==
    Filtered =>
        \A i \in DOMAIN fdf :
            /\ \A ts \in {fdf[i].CheckIn, fdf[i].CheckOut,
                           fdf[i].ScheduleIn, fdf[i].ScheduleOut} :
                  ts \div 1440 = Src(i).Date
            /\ (fdf[i].CheckIn <= fdf[i].CheckOut)
                  <=> TimeLeq(Src(i).CheckIn, Src(i).CheckOut)
            /\ (fdf[i].ScheduleIn <= fdf[i].ScheduleOut)
                  <=> TimeLeq(Src(i).ScheduleIn, Src(i).ScheduleOut)
            /\ fdf[i].actual = fdf[i].CheckOut - fdf[i].CheckIn
            /\ fdf[i].planned = fdf[i].ScheduleOut - fdf[i].ScheduleIn

C6_Witness ==
    /\ Filtered
    /\ \E i \in DOMAIN fdf :
          /\ fdf[i].CheckIn > fdf[i].CheckOut
          /\ Hour(fdf[i].CheckIn) = Hour(fdf[i].CheckOut)
    /\ \E i \in DOMAIN fdf : fdf[i].ScheduleIn > fdf[i].ScheduleOut
    /\ \E i \in DOMAIN fdf : fdf[i].CheckIn < fdf[i].CheckOut

\* C7: when the directory holds no .xls file, the local load fails at the
\* concatenation and the invocation ends there: nothing is filtered, expanded
\* or counted and no image is written.
C7_NoFilesFailsAtConcat ==
    (local_read /\ files = <<>> /\ pc # "load") =>
        /\ pc = "error"
        /\ err = "ValueError: No objects to concatenate"
        /\ df = <<>> /\ doi = <<>> /\ fdf = <<>>
        /\ tchours = <<>> /\ tphours = <<>>
        /\ checkcount = <<>> /\ plancount = <<>>
        /\ image = <<>>

C7_Witness ==
    /\ local_read
    /\ files = <<>>
    /\ pc = "error"
    /\ err = "ValueError: No objects to concatenate"

\* C8: with local_read = False the loader issues the database query and the
\* invocation goes on with the rows it returns.
C8_DatabasePathLoads ==
    (~local_read /\ pc # "load") =>
        /\ Len(query) = 1
        /\ err = ""
        /\ pc # "error"

\* C9: a filtered row whose end hour is before its start hour is expanded
\* without an error to the empty list, for the actual and for the planned
\* interval, and adds nothing to that count, while the other interval and the
\* other rows count as usual.
C9_ReversedIntervalIsEmpty ==
    /\ Expanded =>
          /\ Len(tchours) = Len(fdf)
          /\ Len(tphours) = Len(fdf)
          /\ \A i \in DOMAIN fdf :
                /\ Src(i).CheckOut[1] < Src(i).CheckIn[1] => tchours[i] = <<>>
                /\ Src(i).ScheduleOut[1] < Src(i).ScheduleIn[1] => tphours[i] = <<>>
    /\ Aggregated =>
          \A h \in 0..23 :
              /\ CountOf(checkcount, h) =
                    Cardinality({i \in DOMAIN fdf :
                        Src(i).CheckIn[1] <= h /\ h <= Src(i).CheckOut[1]})
              /\ CountOf(plancount, h) =
                    Cardinality({i \in DOMAIN fdf :
                        Src(i).ScheduleIn[1] <= h /\ h <= Src(i).ScheduleOut[1]})

C9_Witness ==
    /\ pc = "done"
    /\ Len(fdf) = 2
    /\ Src(1).CheckOut[1] < Src(1).CheckIn[1]
    /\ tchours[1] = <<>>
    /\ tphours[1] = <<8, 9, 10, 11, 12, 13, 14, 15, 16>>
    /\ tchours[2] # <<>>
    /\ CountOf(checkcount, 9) = 1
    /\ CountOf(plancount, 9) = 2

C10_Renderable ==
    /\ Cardinality(UNION {Elems(tchours[i]) : i \in DOMAIN tchours}) >= 2
    /\ Cardinality(UNION {Elems(tphours[i]) : i \in DOMAIN tphours}) >= 1

\* C10: the image is written at most once and only when the actual mapping
\* has at least two distinct hours and the planned mapping at least one; with
\* an empty filtered set, fewer than two actual hours or no planned hour the
\* invocation does not complete and writes no image.
C10_ImageOnlyWhenRenderable ==
    /\ Len(image) <= 1
    /\ image # <<>> =>
          /\ pc = "done"
          /\ Len(checkcount) >= 2
          /\ Len(plancount) >= 1
          /\ C10_Renderable
    /\ pc = "done" => Len(image) = 1
    /\ (Aggregated /\ (fdf = <<>> \/ ~C10_Renderable)) =>
          /\ pc \in {"render", "error"}
          /\ image = <<>>
          /\ pc = "error" => err # ""

C10_Witness ==
    /\ pc = "error"
    /\ fdf # <<>>
    /\ checkcount # <<>>
    /\ plancount = <<>>
    /\ image = <<>>
====
